---- MODULE Spec2Model ----
(***************************************************************************)
(* Chunked upload engine of maxifly/upload-big-file (package uploadbig).   *)
(* One UploadData instance runs Init once: Init resolves the source,       *)
(* computes Status.Parts and runs uploadFile, which calls uploadChunk(i)   *)
(* for i = 0, 1, ... until Status.IsDone.  Every httpRequest is one step,  *)
(* so the requests a server receives are visible in the behaviour.         *)
(*                                                                         *)
(* Strings that the code parses (the response body) are sequences of       *)
(* one-character strings; strings.Split and strconv.ParseInt are modelled  *)
(* on them.  Integers are unbounded: the model's sizes stay far below the  *)
(* int64 / float64 (2^53) limits of the code.                              *)
(***************************************************************************)
EXTENDS Integers, Sequences, FiniteSets, TLC

\* ------------------------------------------------------------------ bounds
MaxSize == 3      \* largest source size of the enumerated uploads
MaxChunk == 2     \* largest chunk size of the enumerated uploads
MaxTo == 2        \* largest `to` a server-reported range carries

\* ------------------------------------------------------- program constants
MB == 1048576

VARIABLES
    filePath,             \* c.filePath: "" for a reader-backed uploader
    chunkSize,            \* c.chunkSize
    srcSize,              \* bytes of the source: the file's size, or the size given with the reader
    file,                 \* c.file: "nil", "open" or "closed"
    Size,                 \* c.Status.Size
    SizeTransferred,      \* c.Status.SizeTransferred
    Parts,                \* c.Status.Parts
    PartsTransferred,     \* c.Status.PartsTransferred
    IsDone,               \* c.Status.IsDone
    TransferredException, \* c.Status.TransferredException
    pc,                   \* where Init stands: "pending", "loop", "send", "returned", "panicked"
    i,                    \* uploadFile's loop index
    partSize,             \* uploadChunk's partSize
    isSuccess,            \* uploadChunk's isSuccess
    responseBody,         \* uploadChunk's responseBody
    errorCount,           \* uploadChunk's errorCount
    initResult,           \* what Init returned: "none" (not yet), "nil" or "err"
    requests,             \* history: the requests sent, in order
    additionalHeaders,    \* c.additionalHeaders: the names of the caller's headers
    readErr,              \* uploadChunk's err after io.ReadFull: TRUE when the read failed
    stream                \* the caller's stream behind c.reader: "none", "open" or "closed"

vars == <<filePath, chunkSize, srcSize, file, Size, SizeTransferred, Parts,
          PartsTransferred, IsDone, TransferredException, pc, i, partSize,
          isSuccess, responseBody, errorCount, initResult, requests,
          additionalHeaders, readErr, stream>>

status == <<Size, SizeTransferred, Parts, PartsTransferred, IsDone, TransferredException>>
locals == <<partSize, isSuccess, responseBody, errorCount>>
config == <<filePath, chunkSize, srcSize, additionalHeaders>>

\* ------------------------------------------------------------ pure helpers
Min(a, b) == IF a < b THEN a ELSE b

Digits == <<"0", "1", "2", "3", "4", "5", "6", "7", "8", "9">>

IsDigit(c) == \E d \in 1..10 : Digits[d] = c

DigitVal(c) == (CHOOSE d \in 1..10 : Digits[d] = c) - 1

\* fmt.Sprintf("%v", n) for n >= 0
RECURSIVE Itoa(_)
Itoa(n) == IF n < 10 THEN <<Digits[n + 1]>> ELSE Itoa(n \div 10) \o <<Digits[(n % 10) + 1]>>

\* strings.Split(s, sep) for a one-character separator
RECURSIVE Split(_, _)
Split(s, sep) ==
    IF \A k \in 1..Len(s) : s[k] # sep
    THEN <<s>>
    ELSE LET k == CHOOSE k \in 1..Len(s) : s[k] = sep /\ \A j \in 1..(k - 1) : s[j] # sep
         IN  <<SubSeq(s, 1, k - 1)>> \o Split(SubSeq(s, k + 1, Len(s)), sep)

RECURSIVE DigitsVal(_)
DigitsVal(s) == IF Len(s) = 0 THEN 0
                ELSE 10 * DigitsVal(SubSeq(s, 1, Len(s) - 1)) + DigitVal(s[Len(s)])

\* strconv.ParseInt(s, 10, 64): an optional sign, then one or more digits
ParseInt(s) ==
    LET signed == Len(s) > 0 /\ s[1] \in {"+", "-"}
        ds == IF signed THEN SubSeq(s, 2, Len(s)) ELSE s
    IN  IF Len(ds) = 0 \/ \E k \in 1..Len(ds) : ~IsDigit(ds[k])
        THEN [err |-> TRUE, val |-> 0]
        ELSE [err |-> FALSE,
              val |-> IF signed /\ s[1] = "-" THEN 0 - DigitsVal(ds) ELSE DigitsVal(ds)]

\* parseBody: outcome "ok" with the parsed `to`, "err" (ParseInt failed) or
\* "panic" (splitted[1] indexes a slice of length 1)
parseBody(body) ==
    LET fromTo == Split(body, "/")[1]
        splitted == Split(fromTo, "-")
    IN  IF Len(splitted) < 2
        THEN [outcome |-> "panic", val |-> 0]
        ELSE LET r == ParseInt(splitted[2])
             IN  IF r.err THEN [outcome |-> "err", val |-> 0]
                 ELSE [outcome |-> "ok", val |-> r.val]

calculateTransferredSizeFlippedCap(body, part, transferred, total) ==
    IF body # <<>>
    THEN parseBody(body)
    ELSE [outcome |-> "ok",
          val |-> IF part + transferred < total THEN total - transferred ELSE part]

calculateTransferredSize(body, part, transferred, total) ==
    IF body # <<>>
    THEN parseBody(body)
    ELSE [outcome |-> "ok",
          val |-> IF part + transferred > total THEN total - transferred ELSE part]

partsOfFloor(size, chunk) == size \div chunk

\* uint64(math.Ceil(float64(size) / float64(chunk)))
partsOf(size, chunk) == IF size % chunk = 0 THEN size \div chunk ELSE (size \div chunk) + 1

\* int(math.Ceil(math.Min(float64(chunk), float64(size - int64(index*uint64(chunk))))))
computePartSize(index, chunk, size) == Min(chunk, size - index * chunk)

retryLoopCondOffByOne(success, errors) == ~success /\ errors <= 3

\* the retry loop's condition
retryLoopCond(success, errors) == ~success /\ errors < 3

\* httpRequest's first result
statusIsSuccess(code) == code >= 200 /\ code <= 299

BytesPrefix == <<"b", "y", "t", "e", "s", " ">>

\* generateContentRange (the uint64 values stay far from wrapping: index > 0
\* is only reached with totalSize > 0)
generateContentRange(index, fileChunk, part, totalSize) ==
    IF index = 0
    THEN BytesPrefix \o <<"0", "-">> \o Itoa(part) \o <<"/">> \o Itoa(totalSize)
    ELSE LET from == fileChunk * index
             end == fileChunk * (index + 1)
             to == IF end > totalSize THEN totalSize - 1 ELSE end
         IN  BytesPrefix \o Itoa(from) \o <<"-">> \o Itoa(to) \o <<"/">> \o Itoa(totalSize)

\* the headers httpRequest sets on a request, given its additionalHeaders argument
requestHeaders(extra) ==
    {"Content-Type", "Content-Disposition", "Content-Range", "Session-ID"} \cup extra

\* the additionalHeaders that uploadChunk's call of httpRequest hands over:
\* the call lists method, url, client, id, buffer, range, file name and logger,
\* and c.additionalHeaders is not among its arguments
passedHeaders(callerHeaders) == {}

nextIndexSkip(index) == index + 2

\* uploadFile: i = i + 1
nextIndex(index) == index + 1

\* ------------------------------------------------------------ environment
\* what a server may answer with: a body "from-to/total"
FormatRange(from, to, total) == Itoa(from) \o <<"-">> \o Itoa(to) \o <<"/">> \o Itoa(total)

RangeBodies == {FormatRange(0, t, MaxSize) : t \in 0..MaxTo}

MalformedBodies == { <<"0", "-", "x", "/", "3">>,      \* non-numeric `to`
                     <<"0", "-">>,                      \* missing `to`
                     <<"O", "K">> }                     \* no '-' separator

Bodies == {<<>>} \cup RangeBodies \cup MalformedBodies

FailureBodies == {<<>>, <<"e", "r", "r">>}

StatusCodes == {199, 200, 299, 300, 500}

\* the header sets a caller may construct the uploader with
HeaderSets == {{}, {"Authorization"}}

\* the (size, chunk size) pairs of the uploads explored
Uploads == ((0..MaxSize) \X (1..MaxChunk)) \cup {<<1000000, MB>>}

\* ------------------------------------------------------------------- Init
Init ==
    /\ \E u \in Uploads : srcSize = u[1] /\ chunkSize = u[2]
    /\ filePath \in {"", "data.bin"}
    /\ file = "nil"
    /\ Size = IF filePath = "" THEN srcSize ELSE 0
    /\ SizeTransferred = 0
    /\ Parts = 0
    /\ PartsTransferred = 0
    /\ IsDone = FALSE
    /\ TransferredException = FALSE
    /\ pc = "pending"
    /\ i = 0
    /\ partSize = 0
    /\ isSuccess = FALSE
    /\ responseBody = <<>>
    /\ errorCount = 0
    /\ initResult = "none"
    /\ requests = <<>>
    /\ additionalHeaders \in HeaderSets
    /\ readErr = FALSE
    /\ stream = IF filePath = "" THEN "open" ELSE "none"

\* ---------------------------------------------------------------- actions
uploadDone(isException) ==
    /\ IsDone' = TRUE
    /\ TransferredException' = isException

CloseOnSuccessOnly ==
    /\ file' = IF filePath # "" /\ ~TransferredException THEN "closed" ELSE file
    /\ stream' = stream

\* Close, as the deferred call of Init runs it
Close ==
    /\ file' = IF filePath # "" THEN "closed" ELSE file
    /\ stream' = stream

\* Init up to the call of uploadFile
InitCall ==
    /\ pc = "pending"
    /\ IF filePath # ""
       THEN \E statOk \in BOOLEAN, openOk \in BOOLEAN :
               IF ~statOk
               THEN /\ uploadDone(TRUE)
                    /\ pc' = "returned"
                    /\ initResult' = "err"
                    /\ UNCHANGED <<Size, Parts, file>>
               ELSE IF ~openOk
               THEN /\ Size' = srcSize
                    /\ uploadDone(TRUE)
                    /\ pc' = "returned"
                    /\ initResult' = "err"
                    /\ UNCHANGED <<Parts, file>>
               ELSE /\ Size' = srcSize
                    /\ file' = "open"
                    /\ Parts' = partsOf(srcSize, chunkSize)
                    /\ pc' = "loop"
                    /\ UNCHANGED <<IsDone, TransferredException, initResult>>
       ELSE /\ Parts' = partsOf(Size, chunkSize)
            /\ pc' = "loop"
            /\ UNCHANGED <<Size, file, IsDone, TransferredException, initResult>>
    /\ i' = 0
    /\ UNCHANGED <<config, SizeTransferred, PartsTransferred, locals, requests,
                   readErr, stream>>

uploadFileCondByIndex == i <= Parts

\* uploadFile: for !c.Status.IsDone
uploadFileCond == ~IsDone

readFailedNoReturn ==
    /\ uploadDone(TRUE)
    /\ pc' = "send"
    /\ partSize' = computePartSize(i, chunkSize, Size)
    /\ isSuccess' = FALSE
    /\ responseBody' = <<>>
    /\ errorCount' = 0
    /\ UNCHANGED <<i>>

readFailedIgnored ==
    /\ pc' = "send"
    /\ partSize' = computePartSize(i, chunkSize, Size)
    /\ isSuccess' = FALSE
    /\ responseBody' = <<>>
    /\ errorCount' = 0
    /\ UNCHANGED <<i, IsDone, TransferredException>>

readFailedNotFlagged ==
    /\ uploadDone(FALSE)
    /\ pc' = "loop"
    /\ i' = nextIndex(i)
    /\ partSize' = computePartSize(i, chunkSize, Size)
    /\ UNCHANGED <<isSuccess, responseBody, errorCount>>

\* uploadChunk: io.ReadFull returned an error
readFailed ==
    /\ uploadDone(TRUE)
    /\ pc' = "loop"
    /\ i' = nextIndex(i)
    /\ partSize' = computePartSize(i, chunkSize, Size)
    /\ UNCHANGED <<isSuccess, responseBody, errorCount>>

\* uploadChunk(i) from its entry to the start of the retry loop
uploadChunk ==
    /\ pc = "loop"
    /\ uploadFileCond
    /\ IF i = Parts
       THEN /\ uploadDone(FALSE)
            /\ pc' = "loop"
            /\ i' = nextIndex(i)
            /\ UNCHANGED <<locals, readErr>>
       ELSE IF TransferredException
       THEN /\ pc' = "loop"
            /\ i' = nextIndex(i)
            /\ UNCHANGED <<IsDone, TransferredException, locals, readErr>>
       ELSE IF computePartSize(i, chunkSize, Size) <= 0
       THEN /\ pc' = "loop"
            /\ i' = nextIndex(i)
            /\ partSize' = computePartSize(i, chunkSize, Size)
            /\ UNCHANGED <<IsDone, TransferredException, isSuccess, responseBody,
                           errorCount, readErr>>
       ELSE \E readOk \in BOOLEAN :
               /\ readErr' = ~readOk
               /\ IF readOk
                  THEN /\ pc' = "send"
                       /\ partSize' = computePartSize(i, chunkSize, Size)
                       /\ isSuccess' = FALSE
                       /\ responseBody' = <<>>
                       /\ errorCount' = 0
                       /\ UNCHANGED <<i, IsDone, TransferredException>>
                  ELSE readFailed
    /\ UNCHANGED <<config, file, stream, Size, SizeTransferred, Parts, PartsTransferred,
                   initResult, requests>>

\* one pass of the retry loop: httpRequest and the bookkeeping after it
httpRequest ==
    /\ pc = "send"
    /\ retryLoopCond(isSuccess, errorCount)
    /\ \E transportErr \in BOOLEAN, code \in StatusCodes, body \in Bodies :
          /\ ~statusIsSuccess(code) => body \in FailureBodies
          /\ transportErr => (code = 500 /\ body = <<>>)
          /\ LET ok == ~transportErr /\ statusIsSuccess(code)
             IN  /\ isSuccess' = ok
                 /\ responseBody' = IF transportErr THEN <<>> ELSE body
                 /\ errorCount' = IF ok THEN errorCount ELSE errorCount + 1
                 /\ requests' = Append(requests,
                                       [index |-> i, ok |-> ok,
                                        body |-> IF ok THEN body ELSE <<>>,
                                        contentRange |->
                                            generateContentRange(i, chunkSize, partSize, Size),
                                        headers |->
                                            requestHeaders(passedHeaders(additionalHeaders))])
    /\ UNCHANGED <<config, file, stream, status, pc, i, partSize, initResult, readErr>>

chunkTransferredSameIndex(bytes) ==
    /\ SizeTransferred' = SizeTransferred + bytes
    /\ PartsTransferred' = i
    /\ UNCHANGED <<IsDone, TransferredException>>

chunkTransferredAccumulate(bytes) ==
    /\ SizeTransferred' = SizeTransferred + bytes
    /\ PartsTransferred' = PartsTransferred + i + 1
    /\ UNCHANGED <<IsDone, TransferredException>>

\* uploadChunk: the status update after a successful send
chunkTransferred(bytes) ==
    /\ SizeTransferred' = SizeTransferred + bytes
    /\ PartsTransferred' = i + 1
    /\ UNCHANGED <<IsDone, TransferredException>>

chunkFailedCounted ==
    /\ uploadDone(TRUE)
    /\ PartsTransferred' = i + 1
    /\ UNCHANGED SizeTransferred

\* uploadChunk: the retry loop ended without a success
chunkFailed ==
    /\ uploadDone(TRUE)
    /\ UNCHANGED <<SizeTransferred, PartsTransferred>>

\* uploadChunk after the retry loop, and uploadFile's i = i + 1
uploadChunkFinish ==
    /\ pc = "send"
    /\ ~retryLoopCond(isSuccess, errorCount)
    /\ IF isSuccess
       THEN LET r == calculateTransferredSize(responseBody, partSize, SizeTransferred, Size)
            IN  IF r.outcome = "panic"
                THEN /\ pc' = "panicked"
                     /\ Close
                     /\ UNCHANGED <<SizeTransferred, PartsTransferred, IsDone,
                                    TransferredException, i>>
                ELSE IF r.outcome = "err"
                THEN /\ uploadDone(TRUE)
                     /\ pc' = "loop"
                     /\ i' = nextIndex(i)
                     /\ UNCHANGED <<SizeTransferred, PartsTransferred, file, stream>>
                ELSE /\ chunkTransferred(r.val)
                     /\ pc' = "loop"
                     /\ i' = nextIndex(i)
                     /\ UNCHANGED <<file, stream>>
       ELSE /\ chunkFailed
            /\ pc' = "loop"
            /\ i' = nextIndex(i)
            /\ UNCHANGED <<file, stream>>
    /\ UNCHANGED <<config, Size, Parts, locals, initResult, requests, readErr>>

\* uploadFile's loop ends; Init runs the deferred Close and returns nil
InitReturn ==
    /\ pc = "loop"
    /\ ~uploadFileCond
    /\ Close
    /\ pc' = "returned"
    /\ initResult' = "nil"
    /\ UNCHANGED <<config, status, i, locals, requests, readErr>>

Next ==
    \/ InitCall
    \/ uploadChunk
    \/ httpRequest
    \/ uploadChunkFinish
    \/ InitReturn

Spec == Init /\ [][Next]_vars

\* ---------------------------------------------------- history vocabulary
NumRequests == Len(requests)

LastRequest == requests[NumRequests]

\* the requests sent for chunk k, as positions of the history
RequestsFor(k) == {p \in 1..NumRequests : requests[p].index = k}

\* positions p, p+1, p+2 hold three failed attempts of one chunk
ThreeFailuresAt(p) ==
    /\ p + 2 <= NumRequests
    /\ \A q \in p..(p + 2) : requests[q].index = requests[p].index /\ ~requests[q].ok

\* the last three requests are two failures and then a success, all of one chunk
TwoFailuresThenSuccess ==
    /\ NumRequests >= 3
    /\ LastRequest.ok
    /\ ~requests[NumRequests - 1].ok /\ requests[NumRequests - 1].index = LastRequest.index
    /\ ~requests[NumRequests - 2].ok /\ requests[NumRequests - 2].index = LastRequest.index

\* uploadChunk(index) has just ended for the chunk of the last request
JustFinishedLastChunk ==
    \/ pc = "loop" /\ i = LastRequest.index + 1
    \/ pc = "panicked"

\* every chunk of the upload got a 2xx answer with an empty body
AllChunksAcknowledgedEmpty ==
    \A k \in 0..(Parts - 1) :
        \E p \in RequestsFor(k) : requests[p].ok /\ requests[p].body = <<>>

\* ------------------------------------------------------------------ claims

\* C1: in every reachable state 0 <= Status.SizeTransferred <= Status.Size,
\* whatever the server answers (failures, 2xx with an empty body, 2xx with a
\* reported range).
C1_SizeTransferredWithinSize == 0 <= SizeTransferred /\ SizeTransferred <= Size

\* C2: every step taken with IsDone = FALSE leaves Status.SizeTransferred at
\* least as large as it was.
C2_SizeTransferredNeverDecreases ==
    [][~IsDone => SizeTransferred' >= SizeTransferred]_vars

\* C3: once Status.IsDone is true, no later step changes Parts,
\* PartsTransferred, SizeTransferred or TransferredException.
C3_StatusFrozenOnceDone ==
    [][IsDone => /\ Parts' = Parts
                 /\ PartsTransferred' = PartsTransferred
                 /\ SizeTransferred' = SizeTransferred
                 /\ TransferredException' = TransferredException]_vars

C3_Witness ==
    pc = "returned" /\ initResult = "nil" /\ IsDone /\ TransferredException
    /\ PartsTransferred > 0 /\ PartsTransferred < Parts

\* C4: every chunk gets at most 3 requests, and no request follows a
\* successful attempt of the same chunk.
C4_AtMostThreeAttempts ==
    \A p \in 1..NumRequests :
        /\ Cardinality(RequestsFor(requests[p].index)) <= 3
        /\ requests[p].ok => \A q \in RequestsFor(requests[p].index) : q <= p

C4_Witness ==
    /\ TwoFailuresThenSuccess
    /\ NumRequests > 3
    /\ pc = "returned"

\* C5: when all 3 attempts of chunk i fail the engine ends IsDone, failed,
\* with PartsTransferred = i and SizeTransferred untouched by chunk i, and no
\* later request is sent; a server that rejects every request gets exactly 3
\* requests, all for chunk 0, and PartsTransferred stays 0.
C5_ExhaustedRetriesAreFatal ==
    /\ [](\A p \in 1..NumRequests :
            ThreeFailuresAt(p) =>
                /\ NumRequests = p + 2
                /\ pc # "send" => /\ IsDone
                                  /\ TransferredException
                                  /\ PartsTransferred = requests[p].index)
    /\ [](pc = "returned" /\ NumRequests > 0 /\ (\A p \in 1..NumRequests : ~requests[p].ok)
            => /\ NumRequests = 3
               /\ \A p \in 1..NumRequests : requests[p].index = 0
               /\ PartsTransferred = 0
               /\ SizeTransferred = 0)
    /\ [][(pc = "send" /\ ~(NumRequests > 0 /\ LastRequest.index = i /\ LastRequest.ok))
            => /\ SizeTransferred' = SizeTransferred
               /\ PartsTransferred' = PartsTransferred]_vars

C5_Witness ==
    /\ pc = "returned"
    /\ NumRequests > 3
    /\ ThreeFailuresAt(NumRequests - 2)
    /\ LastRequest.index > 0
    /\ IsDone /\ TransferredException
    /\ SizeTransferred > 0

\* C6 as stated: two failed attempts and then a successful third attempt of
\* chunk i leave PartsTransferred = i+1, not failed, and the loop goes on to
\* index i+1.
C6_ThirdAttemptSuccessRecords ==
    (TwoFailuresThenSuccess /\ JustFinishedLastChunk)
        => /\ PartsTransferred = LastRequest.index + 1
           /\ ~TransferredException
           /\ ~IsDone
           /\ pc = "loop"

\* C6 amended: the same, when the successful third answer has an empty body
\* or a body that is a range from-to/total.
C6_ThirdAttemptSuccessRecordsParsable ==
    (/\ TwoFailuresThenSuccess
     /\ JustFinishedLastChunk
     /\ LastRequest.body \in {<<>>} \cup RangeBodies)
        => /\ PartsTransferred = LastRequest.index + 1
           /\ ~TransferredException
           /\ ~IsDone
           /\ pc = "loop"
           /\ i = LastRequest.index + 1

C6_Witness ==
    /\ TwoFailuresThenSuccess
    /\ pc = "loop" /\ i = LastRequest.index + 1
    /\ LastRequest.body \in RangeBodies
    /\ PartsTransferred = i
    /\ i < Parts

\* C7: requests go out in ascending, gap-free chunk order: the first is for
\* chunk 0, the index never drops and rises by one only after a success, and
\* at each send PartsTransferred equals the index sent.
C7_SequentialAscendingOrder ==
    /\ [](NumRequests > 0 => requests[1].index = 0)
    /\ [](\A p \in 1..(NumRequests - 1) :
            \/ requests[p + 1].index = requests[p].index
            \/ requests[p + 1].index = requests[p].index + 1 /\ requests[p].ok)
    /\ [][requests' # requests
            => PartsTransferred = requests'[Len(requests')].index]_vars

C7_Witness ==
    /\ NumRequests >= 3
    /\ LastRequest.index = 2
    /\ requests[1].index = 0
    /\ PartsTransferred = 3

\* C8: once Status.IsDone is true no further request is sent.
C8_NoRequestOnceDone == [][IsDone => requests' = requests]_vars

C8_Witness ==
    /\ pc = "returned" /\ initResult = "nil" /\ IsDone
    /\ NumRequests > 0
    /\ PartsTransferred = Parts

\* C9: the Parts that Init computes is ceil(Size / chunkSize), it is 0 only
\* for Size = 0, and an upload of size 0 is done at once, not failed, with no
\* request sent.
C9_PartsIsCeiling ==
    (pc # "pending" /\ initResult # "err")
        => /\ Parts * chunkSize >= Size
           /\ (Parts - 1) * chunkSize < Size
           /\ Parts >= 0
           /\ Parts = 0 => Size = 0
           /\ (Size = 0 /\ (pc # "loop" \/ i > 0))
                => IsDone /\ ~TransferredException /\ NumRequests = 0

C9_Witness ==
    /\ pc = "loop" /\ i = 0
    /\ Size % chunkSize # 0
    /\ Parts > 1

\* C10: when every chunk got a 2xx answer with an empty body the upload ends
\* IsDone, not failed, PartsTransferred = Parts and SizeTransferred = Size;
\* 1,000,000 bytes in chunks of 1,048,576 are one chunk.
C10_EmptyBodiesCompleteUpload ==
    (pc = "returned" /\ initResult = "nil" /\ AllChunksAcknowledgedEmpty)
        => /\ IsDone
           /\ ~TransferredException
           /\ PartsTransferred = Parts
           /\ SizeTransferred = Size
           /\ (srcSize = 1000000 /\ chunkSize = MB)
                => Parts = 1 /\ PartsTransferred = 1 /\ SizeTransferred = 1000000

C10_Witness ==
    /\ pc = "returned" /\ initResult = "nil" /\ AllChunksAcknowledgedEmpty
    /\ Parts > 1
    /\ Size % chunkSize # 0
    /\ SizeTransferred = Size

\* Init has got past stat and open: the chunk loop has started
LoopStarted == pc # "pending" /\ (filePath # "" => file # "nil")

\* Init has ended, by returning or by a panic
InitEnded == pc \in {"returned", "panicked"}

\* C11: Init terminates: whatever the source and the server do, the run goes
\* on until IsDone is true, within Parts+1 iterations of the loop.
C11_InitReachesDone == (IsDone \/ ENABLED Next) /\ i <= Parts + 1

\* C12: Init returns an error exactly when stat or open failed, and then no
\* request was sent; once the chunk loop has started Init ends by returning
\* nil, and an upload that did not transfer every chunk has
\* TransferredException set.
C12_InitErrorOnlyForSetup ==
    /\ initResult = "err" <=> (pc # "pending" /\ ~LoopStarted)
    /\ initResult = "err" => NumRequests = 0
    /\ (InitEnded /\ LoopStarted)
          => /\ initResult = "nil"
             /\ PartsTransferred < Parts => IsDone /\ TransferredException

\* C15: a 2xx answer with a malformed range body is fatal without a crash:
\* the engine ends IsDone, failed, and the chunk changes neither
\* SizeTransferred nor PartsTransferred.
C15_MalformedRangeIsFatal ==
    /\ []((NumRequests > 0 /\ LastRequest.ok /\ LastRequest.body \in MalformedBodies
           /\ pc # "send")
            => /\ pc # "panicked"
               /\ IsDone
               /\ TransferredException
               /\ PartsTransferred = LastRequest.index)
    /\ [][(pc = "send" /\ NumRequests > 0 /\ LastRequest.ok
           /\ LastRequest.body \in MalformedBodies)
            => /\ SizeTransferred' = SizeTransferred
               /\ PartsTransferred' = PartsTransferred]_vars

\* C16: in every reachable state PartsTransferred <= Parts.
C16_PartsTransferredWithinParts == PartsTransferred <= Parts

C16_Witness == PartsTransferred = Parts /\ Parts > 1 /\ pc = "returned"

\* C17: after a successful send SizeTransferred grows by the `to` of the
\* answer's range when the body is from-to/total, and by the part size, capped
\* at Size - SizeTransferred, for every other body.
C17_TransferredDelta ==
    [][(pc = "send" /\ pc' # "send" /\ NumRequests > 0 /\ LastRequest.ok)
        => /\ \A t \in 0..MaxTo :
                LastRequest.body = FormatRange(0, t, MaxSize)
                    => SizeTransferred' = SizeTransferred + t
           /\ LastRequest.body \notin RangeBodies
                => SizeTransferred' = SizeTransferred + Min(partSize, Size - SizeTransferred)]_vars

\* C20: a done upload that is not failed has transferred every part, and a
\* failed upload whose chunk loop had started is done with fewer than Parts
\* parts transferred.
C20_TerminalStateTellsProgress ==
    /\ (IsDone /\ ~TransferredException) => PartsTransferred = Parts
    /\ (TransferredException /\ LoopStarted) => (IsDone /\ PartsTransferred < Parts)

C20_Witness ==
    /\ pc = "returned" /\ LoopStarted
    /\ TransferredException
    /\ PartsTransferred = Parts - 1
    /\ PartsTransferred > 0

\* C13: for a chunk index >= 1 the Content-Range sent is
\* "bytes from-to/total" with from = chunkSize*index,
\* to = min(chunkSize*(index+1), Size-1) and total = Size, also when
\* chunkSize*(index+1) = Size.
C13_ContentRangeOfLaterChunks ==
    \A p \in 1..NumRequests :
        LET index == requests[p].index
        IN  index >= 1 =>
                requests[p].contentRange =
                    BytesPrefix \o Itoa(chunkSize * index) \o <<"-">>
                        \o Itoa(Min(chunkSize * (index + 1), Size - 1))
                        \o <<"/">> \o Itoa(Size)

\* C14: every request carries all the caller's additional headers, next to
\* Content-Type, Content-Disposition, Content-Range and Session-ID.
C14_CallerHeadersSent ==
    \A p \in 1..NumRequests :
        /\ additionalHeaders \subseteq requests[p].headers
        /\ {"Content-Type", "Content-Disposition", "Content-Range", "Session-ID"}
                \subseteq requests[p].headers

\* C18: when the read of chunk i fails the engine ends IsDone, failed, sends
\* no request for chunk i and changes neither SizeTransferred nor
\* PartsTransferred.
C18_ReadFailureIsFatal ==
    /\ [](readErr => /\ IsDone
                     /\ TransferredException
                     /\ pc \in {"loop", "returned"}
                     /\ RequestsFor(i - 1) = {}
                     /\ PartsTransferred = i - 1)
    /\ [][(readErr' /\ ~readErr)
            => /\ requests' = requests
               /\ SizeTransferred' = SizeTransferred
               /\ PartsTransferred' = PartsTransferred]_vars
    /\ [][readErr
            => /\ requests' = requests
               /\ SizeTransferred' = SizeTransferred
               /\ PartsTransferred' = PartsTransferred]_vars

C18_Witness ==
    /\ readErr
    /\ pc = "returned"
    /\ PartsTransferred > 0
    /\ SizeTransferred > 0

\* C19: a file that Init opened is closed when Init ends, after success and
\* after every kind of failure; a caller's stream is never closed.
C19_FileClosedStreamLeftOpen ==
    /\ (filePath # "" /\ InitEnded /\ LoopStarted) => file = "closed"
    /\ filePath = "" => (stream = "open" /\ file = "nil")

C19_Witness ==
    /\ filePath # ""
    /\ pc = "returned"
    /\ TransferredException
    /\ NumRequests > 0
    /\ file = "closed"

====
